---- MODULE Spec2Model ----
(***************************************************************************)
(* HdfsClient (hdfs_client.py): the lifecycle handlers of the HDFS client  *)
(* component, and TestHcatClient (test_hcat_client.py): the resource       *)
(* sequence the HCatClient "configure" command is tested against.          *)
(*                                                                         *)
(* A step of Spec is one whole handler invocation.  The variables hold the *)
(* state that outlives an invocation (env_params, structured_out) and the  *)
(* trace of the last invocation (its inputs, the library functions it      *)
(* called, the resources it declared, the dictionaries it passed to        *)
(* put_structured_out, the exception that reached its caller).             *)
(***************************************************************************)
EXTENDS Integers, Sequences, FiniteSets, TLC

VARIABLES
  env_params,      \* module last given to env.set_params: "none", "params", "status_params"
  structured_out,  \* Script.structuredOut: every put_structured_out merged
  command,         \* the handler invoked last ("none" before the first)
  status_params,   \* status_params.* read by the last invocation
  core_site,       \* <hadoop_conf_dir>/core-site.xml as the last invocation found it
  kinit,           \* what cached_kinit_executor does when the last invocation calls it
  version,         \* params.version read by the last invocation
  result_issues,   \* local result_issues of the last security_status
  lib_calls,       \* library functions the last invocation called, in order
  resources,       \* resources the last invocation declared, in order
  out_calls,       \* arguments of the last invocation's put_structured_out calls
  raised,          \* exception that reached the caller of the last invocation
  config_file,     \* TestHcatClient: the cluster configuration of executeScript
  declared,        \* TestHcatClient: every resource the script declared
  resource_list,   \* TestHcatClient: RMFTestCase.env.resource_list
  asserted,        \* TestHcatClient: assertResourceCalled calls that passed
  test_pc          \* TestHcatClient: "idle", "script", "asserting", "passed", "failed"

hdfs_vars == <<env_params, structured_out, command, status_params, core_site,
               kinit, version, result_issues, lib_calls, resources, out_calls,
               raised>>
hcat_vars == <<config_file, declared, resource_list, asserted, test_pc>>
vars == <<hdfs_vars, hcat_vars>>

----------------------------------------------------------------------------
\* the most resources the script under test declares in one run
MaxDeclared == 6

----------------------------------------------------------------------------
(* Python values *)

\* Python's None
None == "None"

\* truth value of a string-or-None in a condition
Truthy(v) == v # None /\ v # ""

\* {}
EmptyDict == [k \in {} |-> ""]

\* d.update(e)
Update(d, e) == e @@ d

\* Script.put_structured_out applied to each dictionary of calls, from d
RECURSIVE put_structured_out(_, _)
put_structured_out(d, calls) ==
  IF calls = <<>> THEN d
  ELSE put_structured_out(Update(d, Head(calls)), Tail(calls))

\* the report one invocation wrote: its put_structured_out calls merged
Report == put_structured_out(EmptyDict, out_calls)

\* the sequences that enumerate the set S once each (a dict's iteration orders)
RECURSIVE Orders(_)
Orders(S) ==
  IF S = {} THEN {<<>>}
  ELSE UNION {{<<x>> \o o : o \in Orders(S \ {x})} : x \in S}

----------------------------------------------------------------------------
(* Inputs of an invocation *)

Principals == {None, "hdfs@EXAMPLE.COM"}
Keytabs == {None, "", "/etc/security/keytabs/hdfs.headless.keytab"}

StatusParams ==
  [security_enabled : BOOLEAN,
   hdfs_user_principal : Principals,
   hdfs_user_keytab : Keytabs]

\* status_params of an invocation that does not import status_params
NoStatusParams ==
  [security_enabled |-> FALSE, hdfs_user_principal |-> None,
   hdfs_user_keytab |-> None]

CoreSite(a, z, l) ==
  ("hadoop.security.authentication" :> a)
    @@ ("hadoop.security.authorization" :> z)
    @@ ("hadoop.security.auth_to_local" :> l)

\* core-site.xml: unreadable, empty, or holding the three checked properties
\* (all as expected, one of them not, two of them not)
CoreSiteProps ==
  {EmptyDict,
   CoreSite("kerberos", "true", "DEFAULT"),
   CoreSite("simple", "true", "DEFAULT"),
   CoreSite("kerberos", "false", "DEFAULT"),
   CoreSite("kerberos", "true", ""),
   CoreSite("simple", "true", "")}

CoreSiteFiles ==
  {[readable |-> FALSE, props |-> EmptyDict]} \cup
  {[readable |-> TRUE, props |-> p] : p \in CoreSiteProps}

NoCoreSite == [readable |-> FALSE, props |-> EmptyDict]

\* cached_kinit_executor returns, or raises an exception with a message
KinitOutcomes ==
  {[ok |-> TRUE, message |-> ""],
   [ok |-> FALSE, message |-> "boom"],
   [ok |-> FALSE, message |-> "Execution of kinit returned 1"]}

NoKinit == [ok |-> TRUE, message |-> ""]

----------------------------------------------------------------------------
(* security_commons, as hdfs_client.py uses it *)

\* props_value_check, props_empty_check of security_status
props_value_check ==
  ("hadoop.security.authentication" :> "kerberos")
    @@ ("hadoop.security.authorization" :> "true")
props_empty_check == {"hadoop.security.auth_to_local"}

\* build_expectations(config_file, value_checks, empty_checks, read_checks)
build_expectations(cf, value_checks, empty_checks) ==
  cf :> [value_checks |-> value_checks, empty_checks |-> empty_checks]

core_site_expectations ==
  build_expectations("core-site", props_value_check, props_empty_check)

\* hdfs_expectations = {}; hdfs_expectations.update(core_site_expectations)
hdfs_expectations == Update(EmptyDict, core_site_expectations)

\* the key get_params_from_filesystem files a configuration file under
ConfigName(file) == CASE file = "core-site.xml" -> "core-site"

\* get_params_from_filesystem(conf_dir, ['core-site.xml']) on a readable file
get_params_from_filesystem(disk) == ConfigName("core-site.xml") :> disk.props

get_value(values, property_name, default) ==
  IF property_name \in DOMAIN values THEN values[property_name] ELSE default

\* the reasons one configuration file can be reported with: one per failed check
Reasons(actual, rule_set) ==
  { "Property " \o p \o " contains an unexpected value. Expected/Actual: "
      \o rule_set.value_checks[p] \o "/" \o get_value(actual, p, "") :
      p \in {q \in DOMAIN rule_set.value_checks :
               get_value(actual, q, "") # rule_set.value_checks[q]} }
  \cup
  { "Property " \o p \o " must exist and must not be empty" :
      p \in {q \in rule_set.empty_checks : get_value(actual, q, "") = ""} }

\* validate_security_config_properties(params, configuration_rules): the
\* mappings it can return, failing file -> reason (which failed check's reason
\* a file is reported with is left open)
validate_security_config_properties(params, rules) ==
  LET actual(cf) == IF cf \in DOMAIN params THEN params[cf] ELSE EmptyDict
      failing == {cf \in DOMAIN rules : Reasons(actual(cf), rules[cf]) # {}}
      all == UNION {Reasons(actual(cf), rules[cf]) : cf \in failing}
  IN {f \in [failing -> all] :
        \A cf \in failing : f[cf] \in Reasons(actual(cf), rules[cf])}

\* str(e) of the exception cached_kinit_executor raised
str(e) == e.message

----------------------------------------------------------------------------
(* HdfsClient.security_status *)

NoException == "none"

\* line 62: if status_params.security_enabled
SecurityEnabled(sp) == sp.security_enabled

\* line 76: if status_params.hdfs_user_principal or status_params.hdfs_user_keytab
HasPrincipalOrKeytab(sp) ==
  Truthy(sp.hdfs_user_principal) \/ Truthy(sp.hdfs_user_keytab)

\* line 85
KinitSucceeded == <<[securityState |-> "SECURED_KERBEROS"]>>

\* KinitFailed, were the handler to drop the exception's message
KinitFailed_NoMessage(e) ==
  <<[securityState |-> "ERROR"],
    [securityStateErrorInfo |-> "cached_kinit_executor failed"]>>

\* lines 86-88
KinitFailed(e) ==
  <<[securityState |-> "ERROR"], [securityStateErrorInfo |-> str(e)]>>

\* NoPrincipalBranch, were the missing principal reported as an error
NoPrincipalBranch_AsError ==
  <<[securityIssuesFound |->
       "hdfs principal and/or keytab file is not specified"],
    [securityState |-> "ERROR"]>>

\* lines 90-91
NoPrincipalBranch ==
  <<[securityIssuesFound |->
       "hdfs principal and/or keytab file is not specified"],
    [securityState |-> "UNSECURED"]>>

\* IssuesText, were the loop to end each piece with a line break
RECURSIVE IssuesText_LineBreaks(_, _)
IssuesText_LineBreaks(order, issues) ==
  IF order = <<>> THEN ""
  ELSE "Configuration file " \o Head(order)
         \o " did not pass the validation. Reason: " \o issues[Head(order)]
         \o "\n" \o IssuesText_LineBreaks(Tail(order), issues)

\* lines 93-95: issues after the loop over result_issues, in iteration order
RECURSIVE IssuesText(_, _)
IssuesText(order, issues) ==
  IF order = <<>> THEN ""
  ELSE "Configuration file " \o Head(order)
         \o " did not pass the validation. Reason: " \o issues[Head(order)]
         \o IssuesText(Tail(order), issues)

\* ValidationFailedBranch, were line 97 missing
ValidationFailedBranch_NoState(order, issues) ==
  <<[securityIssuesFound |-> IssuesText(order, issues)]>>

\* lines 93-97
ValidationFailedBranch(order, issues) ==
  <<[securityIssuesFound |-> IssuesText(order, issues)],
    [securityState |-> "UNSECURED"]>>

\* DisabledBranch, were the disabled branch to report an issue as well
DisabledBranch_WithIssue ==
  <<[securityIssuesFound |-> "security is not enabled"],
    [securityState |-> "UNSECURED"]>>

\* line 100
DisabledBranch == <<[securityState |-> "UNSECURED"]>>

\* lines 62-100: what one run of security_status calls, writes and raises
SecurityStatusRun(sp, disk, k, issues, order) ==
  IF ~SecurityEnabled(sp) THEN
    [lib_calls |-> <<>>, out_calls |-> DisabledBranch, raised |-> NoException]
  ELSE IF ~disk.readable THEN
    [lib_calls |-> <<"build_expectations", "get_params_from_filesystem">>,
     out_calls |-> <<>>, raised |-> "ConfigReadError"]
  ELSE IF issues = EmptyDict THEN
    IF HasPrincipalOrKeytab(sp) THEN
      [lib_calls |-> <<"build_expectations", "get_params_from_filesystem",
                       "validate_security_config_properties",
                       "cached_kinit_executor">>,
       out_calls |-> IF k.ok THEN KinitSucceeded ELSE KinitFailed(k),
       raised |-> NoException]
    ELSE
      [lib_calls |-> <<"build_expectations", "get_params_from_filesystem",
                       "validate_security_config_properties">>,
       out_calls |-> NoPrincipalBranch, raised |-> NoException]
  ELSE
    [lib_calls |-> <<"build_expectations", "get_params_from_filesystem",
                     "validate_security_config_properties">>,
     out_calls |-> ValidationFailedBranch(order, issues),
     raised |-> NoException]

\* result_issues of a run: line 74 when the run gets there, else unset
ResultIssues(sp, disk) ==
  IF SecurityEnabled(sp) /\ disk.readable
  THEN validate_security_config_properties(
         get_params_from_filesystem(disk), hdfs_expectations)
  ELSE {EmptyDict}

\* every run of security_status: its inputs, its result_issues, its trace
SecurityStatusRuns ==
  UNION UNION {{{[sp |-> sp, disk |-> disk, k |-> k, issues |-> issues,
                  run |-> SecurityStatusRun(sp, disk, k, issues, order)] :
                   order \in Orders(DOMAIN issues)} :
                 issues \in ResultIssues(sp, disk)} :
               sp \in StatusParams, disk \in CoreSiteFiles,
               k \in KinitOutcomes}

security_status ==
  \E r \in SecurityStatusRuns :
    /\ command' = "security_status"
    /\ env_params' = "status_params"
    /\ status_params' = r.sp
    /\ core_site' = r.disk
    /\ kinit' = r.k
    /\ version' = None
    /\ result_issues' = r.issues
    /\ lib_calls' = r.run.lib_calls
    /\ resources' = <<>>
    /\ out_calls' = r.run.out_calls
    /\ raised' = r.run.raised
    /\ structured_out' = put_structured_out(structured_out, r.run.out_calls)
    /\ UNCHANGED hcat_vars

----------------------------------------------------------------------------
(* Versions: format_hdp_stack_version and compare_versions *)

\* values of params.version
Versions ==
  {None, "", "2.1.0.0", "2.1.9.9-1", "2.2", "2.2.0.0", "2.2.0.0-2041",
   "2.3.0.0-2557", "2.10.0.0"}

\* the numeric segments of a version string, its build suffix dropped
VersionSegments(v) ==
  CASE v = "2.1.0.0" -> <<2, 1, 0, 0>>
    [] v = "2.1.9.9-1" -> <<2, 1, 9, 9>>
    [] v = "2.2" -> <<2, 2>>
    [] v = "2.2.0.0" -> <<2, 2, 0, 0>>
    [] v = "2.2.0.0-2041" -> <<2, 2, 0, 0>>
    [] v = "2.3.0.0-2557" -> <<2, 3, 0, 0>>
    [] v = "2.10.0.0" -> <<2, 10, 0, 0>>
    [] OTHER -> <<>>

\* segs extended with zeros to n segments
RECURSIVE PadTo(_, _)
PadTo(segs, n) == IF Len(segs) >= n THEN segs ELSE PadTo(Append(segs, 0), n)

\* format_hdp_stack_version(input): the segments of the #.#.#.# form, <<>> for ""
format_hdp_stack_version(input) ==
  IF Truthy(input) /\ VersionSegments(input) # <<>>
  THEN PadTo(VersionSegments(input), 4)
  ELSE <<>>

\* cmp of two equally long lists of numbers
RECURSIVE cmp(_, _)
cmp(a, b) ==
  IF a = <<>> THEN 0
  ELSE IF Head(a) < Head(b) THEN -1
  ELSE IF Head(a) > Head(b) THEN 1
  ELSE cmp(Tail(a), Tail(b))

Max(a, b) == IF a >= b THEN a ELSE b

\* compare_versions(version1, version2), both given as segments
compare_versions(v1, v2) ==
  LET n == Max(Len(v1), Len(v2)) IN cmp(PadTo(v1, n), PadTo(v2, n))

----------------------------------------------------------------------------
(* HdfsClient: the other handlers *)

Execute(cmd) == [type |-> "Execute", name |-> cmd]

\* NeedsHdpSelect, were the comparison strict
NeedsHdpSelect_Strict(v) ==
  Truthy(v) /\ compare_versions(format_hdp_stack_version(v),
                                VersionSegments("2.2.0.0")) > 0

\* line 38: the condition under which pre_rolling_restart executes hdp-select
NeedsHdpSelect(v) ==
  Truthy(v) /\ compare_versions(format_hdp_stack_version(v),
                                VersionSegments("2.2.0.0")) >= 0

\* line 38: the functions the condition calls (and short-circuits)
VersionCheckCalls(v) ==
  IF Truthy(v) THEN <<"format_hdp_stack_version", "compare_versions">> ELSE <<>>

\* line 39
HdpSelect(v) == <<Execute("hdp-select set hadoop-client " \o v)>>

\* the trace of an invocation that reads none of the security inputs
NoSecurityInputs ==
  /\ status_params' = NoStatusParams
  /\ core_site' = NoCoreSite
  /\ kinit' = NoKinit
  /\ result_issues' = EmptyDict

\* lines 54-57: hdfs()
ConfigResources == <<[type |-> "hdfs", name |-> "hdfs()"]>>

install ==
  /\ command' = "install"
  /\ env_params' = "params"
  /\ lib_calls' = <<"install_packages">>
  /\ resources' = ConfigResources
  /\ version' = None
  /\ out_calls' = <<>>
  /\ raised' = NoException
  /\ NoSecurityInputs
  /\ UNCHANGED <<structured_out, hcat_vars>>

pre_rolling_restart ==
  \E v \in Versions :
    /\ command' = "pre_rolling_restart"
    /\ env_params' = "params"
    /\ version' = v
    /\ lib_calls' = VersionCheckCalls(v)
    /\ resources' = IF NeedsHdpSelect(v) THEN HdpSelect(v) ELSE <<>>
    /\ out_calls' = <<>>
    /\ raised' = NoException
    /\ NoSecurityInputs
    /\ UNCHANGED <<structured_out, hcat_vars>>

start ==
  /\ command' = "start"
  /\ env_params' = "params"
  /\ lib_calls' = <<>>
  /\ resources' = <<>>
  /\ version' = None
  /\ out_calls' = <<>>
  /\ raised' = NoException
  /\ NoSecurityInputs
  /\ UNCHANGED <<structured_out, hcat_vars>>

stop ==
  /\ command' = "stop"
  /\ env_params' = "params"
  /\ lib_calls' = <<>>
  /\ resources' = <<>>
  /\ version' = None
  /\ out_calls' = <<>>
  /\ raised' = NoException
  /\ NoSecurityInputs
  /\ UNCHANGED <<structured_out, hcat_vars>>

\* StatusEffects, were status() to set the parameters as start and stop do
StatusEffects_SetsParams ==
  /\ resources' = <<>>
  /\ out_calls' = <<>>
  /\ env_params' = "params"
  /\ UNCHANGED structured_out

\* line 52: what status() sets, declares and writes before it raises
StatusEffects ==
  /\ resources' = <<>>
  /\ out_calls' = <<>>
  /\ UNCHANGED <<env_params, structured_out>>

status ==
  /\ command' = "status"
  /\ raised' = "ClientComponentHasNoStatus"
  /\ StatusEffects
  /\ lib_calls' = <<>>
  /\ version' = None
  /\ NoSecurityInputs
  /\ UNCHANGED hcat_vars

config ==
  /\ command' = "config"
  /\ lib_calls' = <<>>
  /\ resources' = ConfigResources
  /\ version' = None
  /\ out_calls' = <<>>
  /\ raised' = NoException
  /\ NoSecurityInputs
  /\ UNCHANGED <<env_params, structured_out, hcat_vars>>

----------------------------------------------------------------------------
(* TestHcatClient *)

\* a declared resource: its class name, its name, its keyword arguments
Resource(type, name, arguments) ==
  [type |-> type, name |-> name, arguments |-> arguments]

\* self.getConfig()[section][key] of the configuration file cf
getConfig(cf, section, key) == cf \o ":" \o section \o "/" \o key

\* lines 35-61: the resources test_configure_default asserts, in order
test_configure_default ==
  LET cf == "default.json" IN
  << Resource("Directory", "/etc/hive/conf",
       [owner |-> "hcat", group |-> "hadoop", recursive |-> "True"]),
     Resource("Directory", "/etc/hive-hcatalog/conf",
       [owner |-> "hcat", group |-> "hadoop", recursive |-> "True"]),
     Resource("Directory", "/var/run/webhcat",
       [owner |-> "hcat", recursive |-> "True"]),
     Resource("XmlConfig", "hive-site.xml",
       [owner |-> "hive", group |-> "hadoop", mode |-> "0644",
        conf_dir |-> "/etc/hive/conf",
        configurations |-> getConfig(cf, "configurations", "hive-site"),
        configuration_attributes |->
          getConfig(cf, "configuration_attributes", "hive-site")]),
     Resource("File", "/etc/hive-hcatalog/conf/hcat-env.sh",
       [content |-> getConfig(cf, "configurations", "hcat-env"),
        owner |-> "hcat", group |-> "hadoop"]) >>

\* test_configure_secured, were hive-site.xml asserted before its directory
test_configure_secured_XmlFirst ==
  LET cf == "secured.json" IN
  << Resource("XmlConfig", "hive-site.xml",
       [owner |-> "hive", group |-> "hadoop", mode |-> "0644",
        conf_dir |-> "/etc/hive/conf",
        configurations |-> getConfig(cf, "configurations", "hive-site"),
        configuration_attributes |->
          getConfig(cf, "configuration_attributes", "hive-site")]),
     Resource("Directory", "/etc/hive/conf",
       [recursive |-> "True", owner |-> "hcat", group |-> "hadoop"]),
     Resource("Directory", "/etc/hive-hcatalog/conf",
       [recursive |-> "True", owner |-> "hcat", group |-> "hadoop"]),
     Resource("Directory", "/var/run/webhcat",
       [owner |-> "hcat", recursive |-> "True"]),
     Resource("File", "/etc/hive-hcatalog/conf/hcat-env.sh",
       [content |-> getConfig(cf, "configurations", "hcat-env"),
        owner |-> "hcat", group |-> "hadoop"]) >>

\* lines 74-100: the resources test_configure_secured asserts, in order
test_configure_secured ==
  LET cf == "secured.json" IN
  << Resource("Directory", "/etc/hive/conf",
       [recursive |-> "True", owner |-> "hcat", group |-> "hadoop"]),
     Resource("Directory", "/etc/hive-hcatalog/conf",
       [recursive |-> "True", owner |-> "hcat", group |-> "hadoop"]),
     Resource("Directory", "/var/run/webhcat",
       [owner |-> "hcat", recursive |-> "True"]),
     Resource("XmlConfig", "hive-site.xml",
       [owner |-> "hive", group |-> "hadoop", mode |-> "0644",
        conf_dir |-> "/etc/hive/conf",
        configurations |-> getConfig(cf, "configurations", "hive-site"),
        configuration_attributes |->
          getConfig(cf, "configuration_attributes", "hive-site")]),
     Resource("File", "/etc/hive-hcatalog/conf/hcat-env.sh",
       [content |-> getConfig(cf, "configurations", "hcat-env"),
        owner |-> "hcat", group |-> "hadoop"]) >>

\* the assertResourceCalled calls of the test method run with cf
Asserts(cf) ==
  IF cf = "default.json" THEN test_configure_default
  ELSE test_configure_secured

ConfigFiles == {"default.json", "secured.json"}

\* what the script under test may declare: any of the resources of a
\* configure command for cf, and one the tests do not name
ScriptResources(cf) ==
  {Asserts(cf)[i] : i \in 1..Len(Asserts(cf))}
  \cup {Resource("Directory", "/var/log/webhcat",
                 [owner |-> "hcat", recursive |-> "True"])}

\* lines 28-34, 67-73: executeScript(hcat_client.py, command = "configure")
executeScript ==
  /\ test_pc \in {"idle", "passed", "failed"}
  /\ \E cf \in ConfigFiles : config_file' = cf
  /\ declared' = <<>>
  /\ resource_list' = <<>>
  /\ asserted' = 0
  /\ test_pc' = "script"
  /\ UNCHANGED hdfs_vars

\* the script declares one more resource
DeclareResource ==
  /\ test_pc = "script"
  /\ Len(declared) < MaxDeclared
  /\ \E r \in ScriptResources(config_file) :
       /\ declared' = Append(declared, r)
       /\ resource_list' = Append(resource_list, r)
  /\ UNCHANGED <<config_file, asserted, test_pc, hdfs_vars>>

\* executeScript returns
ScriptReturns ==
  /\ test_pc = "script"
  /\ test_pc' = "asserting"
  /\ UNCHANGED <<config_file, declared, resource_list, asserted, hdfs_vars>>

\* the next assertResourceCalled of the test method: the first resource left
\* is taken off the list and compared with the asserted one
assertResourceCalled ==
  /\ test_pc = "asserting"
  /\ asserted < Len(Asserts(config_file))
  /\ IF resource_list = <<>> THEN
       /\ test_pc' = "failed"
       /\ UNCHANGED <<resource_list, asserted>>
     ELSE
       /\ resource_list' = Tail(resource_list)
       /\ IF Head(resource_list) = Asserts(config_file)[asserted + 1]
          THEN asserted' = asserted + 1 /\ test_pc' = "asserting"
          ELSE asserted' = asserted /\ test_pc' = "failed"
  /\ UNCHANGED <<config_file, declared, hdfs_vars>>

\* lines 62, 102: assertNoMoreResources
assertNoMoreResources ==
  /\ test_pc = "asserting"
  /\ asserted = Len(Asserts(config_file))
  /\ test_pc' = IF resource_list = <<>> THEN "passed" ELSE "failed"
  /\ UNCHANGED <<config_file, declared, resource_list, asserted, hdfs_vars>>

HcatIdle ==
  /\ config_file = "none"
  /\ declared = <<>>
  /\ resource_list = <<>>
  /\ asserted = 0
  /\ test_pc = "idle"

----------------------------------------------------------------------------

\* HdfsClient(): nothing invoked yet
Init ==
  /\ env_params = "none"
  /\ structured_out = EmptyDict
  /\ command = "none"
  /\ status_params = NoStatusParams
  /\ core_site = NoCoreSite
  /\ kinit = NoKinit
  /\ version = None
  /\ result_issues = EmptyDict
  /\ lib_calls = <<>>
  /\ resources = <<>>
  /\ out_calls = <<>>
  /\ raised = NoException
  /\ HcatIdle

Next ==
  \/ install
  \/ pre_rolling_restart
  \/ start
  \/ stop
  \/ status
  \/ config
  \/ security_status

Spec == Init /\ [][Next]_vars

NextHcat ==
  \/ executeScript
  \/ DeclareResource
  \/ ScriptReturns
  \/ assertResourceCalled
  \/ assertNoMoreResources

SpecHcat == Init /\ [][NextHcat]_vars

----------------------------------------------------------------------------
(* Properties *)

\* the last invocation called the library function f
Called(f) == \E i \in 1..Len(lib_calls) : lib_calls[i] = f

RanSecurityStatus == command = "security_status"

\* the last security_status got past validation with nothing to report
ValidationPassed ==
  /\ RanSecurityStatus
  /\ status_params.security_enabled
  /\ core_site.readable
  /\ result_issues = EmptyDict

HasPrincipalAndKeytab ==
  Truthy(status_params.hdfs_user_principal)
    /\ Truthy(status_params.hdfs_user_keytab)

\* put_structured_out calls of the last invocation that wrote the key
Writes(key) == {i \in 1..Len(out_calls) : key \in DOMAIN out_calls[i]}

\* C1: with security_enabled false, security_status writes exactly
\* {securityState: UNSECURED} and neither reads the configuration, nor
\* validates it, nor runs the credential check, whatever the configuration on
\* disk and the principal/keytab are.
C1_DisabledWritesUnsecuredOnly ==
  (RanSecurityStatus /\ ~status_params.security_enabled) =>
    /\ out_calls = <<[securityState |-> "UNSECURED"]>>
    /\ Report = [securityState |-> "UNSECURED"]
    /\ ~Called("get_params_from_filesystem")
    /\ ~Called("validate_security_config_properties")
    /\ ~Called("cached_kinit_executor")
    /\ raised = NoException

C1_Witness ==
  /\ RanSecurityStatus
  /\ ~status_params.security_enabled
  /\ HasPrincipalAndKeytab
  /\ core_site.readable
  /\ core_site.props = CoreSite("simple", "true", "")
  /\ Report = [securityState |-> "UNSECURED"]

\* C2: with security enabled and validation passed, the credential check is
\* invoked if and only if both a principal and a keytab are configured;
\* otherwise it is not invoked and the report is UNSECURED with
\* "hdfs principal and/or keytab file is not specified".
C2_KinitIffPrincipalAndKeytab ==
  ValidationPassed =>
    /\ Called("cached_kinit_executor") <=> HasPrincipalAndKeytab
    /\ ~HasPrincipalAndKeytab =>
         Report = [securityState |-> "UNSECURED",
                   securityIssuesFound |->
                     "hdfs principal and/or keytab file is not specified"]

\* C3: security enabled, validation passed, principal and keytab both set and
\* a successful credential check give exactly {securityState:
\* SECURED_KERBEROS}; SECURED_KERBEROS is reported in no other case.
C3_SecuredOnlyOnThatPath ==
  LET path == /\ ValidationPassed
              /\ HasPrincipalAndKeytab
              /\ Called("cached_kinit_executor")
              /\ kinit.ok
  IN RanSecurityStatus =>
       /\ path => /\ out_calls = <<[securityState |-> "SECURED_KERBEROS"]>>
                  /\ Report = [securityState |-> "SECURED_KERBEROS"]
       /\ (Writes("securityState") # {}
             /\ Report.securityState = "SECURED_KERBEROS") => path

\* C4: a credential check that fails with message m gives exactly
\* {securityState: ERROR, securityStateErrorInfo: m}, nothing propagates, and
\* ERROR is reported in no other case.
C4_KinitFailureIsErrorReport ==
  LET failed == Called("cached_kinit_executor") /\ ~kinit.ok IN
  RanSecurityStatus =>
    /\ failed =>
         /\ raised = NoException
         /\ Report = [securityState |-> "ERROR",
                      securityStateErrorInfo |-> kinit.message]
         /\ Writes("securityIssuesFound") = {}
    /\ (Writes("securityState") # {} /\ Report.securityState = "ERROR")
         => failed

C4_Witness ==
  /\ RanSecurityStatus
  /\ Called("cached_kinit_executor")
  /\ kinit = [ok |-> FALSE, message |-> "boom"]
  /\ Report = [securityState |-> "ERROR", securityStateErrorInfo |-> "boom"]

\* the text C5 expects for the failing sources taken in the given order
RECURSIVE C5_Concatenation(_)
C5_Concatenation(order) ==
  IF order = <<>> THEN ""
  ELSE ("Configuration file " \o Head(order))
         \o (" did not pass the validation. Reason: "
               \o result_issues[Head(order)])
         \o C5_Concatenation(Tail(order))

\* C5: with security enabled and a non-empty validation result, the report is
\* UNSECURED with issuesFound the concatenation, over the failing sources in
\* iteration order, of "Configuration file <source> did not pass the
\* validation. Reason: <reason>", each source once and nothing in between; the
\* credential check is not invoked.
C5_ValidationFailureReport ==
  (/\ RanSecurityStatus
   /\ status_params.security_enabled
   /\ core_site.readable
   /\ result_issues # EmptyDict) =>
    /\ DOMAIN Report = {"securityState", "securityIssuesFound"}
    /\ Report.securityState = "UNSECURED"
    /\ \E order \in Orders(DOMAIN result_issues) :
         Report.securityIssuesFound = C5_Concatenation(order)
    /\ DOMAIN result_issues = {"core-site"} =>
         Report.securityIssuesFound =
           "Configuration file core-site did not pass the validation. Reason: "
             \o result_issues["core-site"]
    /\ ~Called("cached_kinit_executor")
    /\ raised = NoException

C5_Witness ==
  /\ RanSecurityStatus
  /\ HasPrincipalAndKeytab
  /\ core_site.readable
  /\ core_site.props = CoreSite("simple", "true", "DEFAULT")
  /\ Report =
       [securityState |-> "UNSECURED",
        securityIssuesFound |->
          "Configuration file core-site did not pass the validation. Reason: Property hadoop.security.authentication contains an unexpected value. Expected/Actual: kerberos/simple"]

\* C6: in every report security_status produces, securityStateErrorInfo is
\* present only with state ERROR, securityIssuesFound only with state
\* UNSECURED, never both, and the state is SECURED_KERBEROS, UNSECURED or ERROR.
C6_ReportShape ==
  (RanSecurityStatus /\ raised = NoException) =>
    /\ "securityState" \in DOMAIN Report
    /\ Report.securityState \in {"SECURED_KERBEROS", "UNSECURED", "ERROR"}
    /\ "securityStateErrorInfo" \in DOMAIN Report
         => Report.securityState = "ERROR"
    /\ "securityIssuesFound" \in DOMAIN Report
         => Report.securityState = "UNSECURED"
    /\ ~({"securityStateErrorInfo", "securityIssuesFound"}
           \subseteq DOMAIN Report)
    /\ DOMAIN Report \subseteq
         {"securityState", "securityIssuesFound", "securityStateErrorInfo"}

C6_Witness ==
  /\ RanSecurityStatus
  /\ raised = NoException
  /\ DOMAIN Report = {"securityState", "securityStateErrorInfo"}
  /\ HasPrincipalAndKeytab

\* C7: unless reading the configuration fails, security_status raises nothing
\* and writes securityState exactly once; when the read fails, the error
\* reaches the caller, nothing is written and the credential check is not
\* invoked.
C7_ReportUnlessReadFails ==
  LET read_failed == Called("get_params_from_filesystem") /\ ~core_site.readable
  IN RanSecurityStatus =>
       /\ read_failed =>
            /\ raised = "ConfigReadError"
            /\ out_calls = <<>>
            /\ ~Called("cached_kinit_executor")
       /\ ~read_failed =>
            /\ raised = NoException
            /\ Cardinality(Writes("securityState")) = 1

C7_Witness ==
  /\ RanSecurityStatus
  /\ status_params.security_enabled
  /\ HasPrincipalAndKeytab
  /\ ~core_site.readable
  /\ raised = "ConfigReadError"
  /\ Report = EmptyDict

\* C8: status() always fails with ClientComponentHasNoStatus, after any
\* handlers, and sets no parameters, declares no resource and writes nothing
\* to the structured output.
C8_StatusFailsAndChangesNothing ==
  [][command' = "status" =>
       /\ raised' = "ClientComponentHasNoStatus"
       /\ env_params' = env_params
       /\ structured_out' = structured_out
       /\ resources' = <<>>
       /\ out_calls' = <<>>]_vars

C8_Witness ==
  /\ command = "status"
  /\ raised = "ClientComponentHasNoStatus"
  /\ env_params = "status_params"
  /\ structured_out =
       [securityState |-> "UNSECURED",
        securityIssuesFound |->
          "hdfs principal and/or keytab file is not specified",
        securityStateErrorInfo |-> "boom"]

\* C9: pre_rolling_restart executes "hdp-select set hadoop-client <version>",
\* once, if and only if the version is set and its formatted form compares
\* >= 2.2.0.0; with no version nothing is executed and nothing is compared.
C9_HdpSelectIffVersionAtLeast22 ==
  LET at_least ==
        /\ Truthy(version)
        /\ compare_versions(format_hdp_stack_version(version),
                            <<2, 2, 0, 0>>) >= 0
  IN command = "pre_rolling_restart" =>
       /\ at_least =>
            resources = <<[type |-> "Execute",
                           name |-> "hdp-select set hadoop-client " \o version]>>
       /\ ~at_least => resources = <<>>
       /\ ~Truthy(version) => ~Called("compare_versions")
       /\ version \in {"2.2", "2.2.0.0", "2.2.0.0-2041", "2.3.0.0-2557",
                       "2.10.0.0"} <=> resources # <<>>

C9_Witness ==
  /\ command = "pre_rolling_restart"
  /\ version = "2.2.0.0"
  /\ resources = <<[type |-> "Execute",
                    name |-> "hdp-select set hadoop-client 2.2.0.0"]>>

\* the five resources of C10, for the cluster configuration cf
C10_Sequence(cf) ==
  << [type |-> "Directory", name |-> "/etc/hive/conf",
      arguments |-> [owner |-> "hcat", group |-> "hadoop",
                     recursive |-> "True"]],
     [type |-> "Directory", name |-> "/etc/hive-hcatalog/conf",
      arguments |-> [owner |-> "hcat", group |-> "hadoop",
                     recursive |-> "True"]],
     [type |-> "Directory", name |-> "/var/run/webhcat",
      arguments |-> [owner |-> "hcat", recursive |-> "True"]],
     [type |-> "XmlConfig", name |-> "hive-site.xml",
      arguments |->
        [owner |-> "hive", group |-> "hadoop", mode |-> "0644",
         conf_dir |-> "/etc/hive/conf",
         configurations |-> cf \o ":configurations/hive-site",
         configuration_attributes |->
           cf \o ":configuration_attributes/hive-site"]],
     [type |-> "File", name |-> "/etc/hive-hcatalog/conf/hcat-env.sh",
      arguments |-> [owner |-> "hcat", group |-> "hadoop",
                     content |-> cf \o ":configurations/hcat-env"]] >>

\* the places of the resource of that type and name in the declared sequence
C10_Places(type, name) ==
  {i \in 1..Len(declared) :
     declared[i].type = type /\ declared[i].name = name}

====
